---- MODULE Spec2Model ----
(***************************************************************************)
(* A model of pybrush.py: the pixel canvas, the drawing functions, the     *)
(* queue-based flood fill and the main loop that turns mouse events into   *)
(* canvas mutations.                                                       *)
(*                                                                         *)
(* The canvas is a function from pixel coordinates <<x, y>> to colours.    *)
(* Python's None is the empty tuple; a position is a pair, a surface is a  *)
(* function over Pixels, so both are truthy exactly when they are not None.*)
(***************************************************************************)
EXTENDS Integers, Sequences, FiniteSets, TLC

\* ------------------------------------------------------------------------
\* Constants of the program, scaled to a canvas TLC can enumerate
\* ------------------------------------------------------------------------
CANVAS_WIDTH == 3
CANVAS_HEIGHT == 3

\* Colours are the RGB tuples of the source.
WHITE == <<255, 255, 255>>
BLACK == <<0, 0, 0>>
RED == <<255, 0, 0>>

\* The palette and the brush sizes the toolbar offers (a prefix of the
\* source's lists, with the initial colour, the background and the initial
\* brush size among them).
palette_colors == <<BLACK, RED, WHITE>>
BRUSH_SIZES == <<1, 5>>
\* Faulty variant of tools: the rectangle tool is registered under a name the
\* handlers do not know.
toolsWithUnknownName == <<"pencil", "eraser", "line", "rect", "circle", "fill">>

tools == <<"pencil", "eraser", "line", "rectangle", "circle", "fill">>

None == <<>>
Truthy(v) == v # None

Pixels == (0 .. CANVAS_WIDTH - 1) \X (0 .. CANVAS_HEIGHT - 1)
Colors == {palette_colors[i] : i \in DOMAIN palette_colors}
ShapeTools == {"line", "rectangle", "circle"}

Abs(n) == IF n < 0 THEN -n ELSE n
Min(a, b) == IF a < b THEN a ELSE b
Max(a, b) == IF a < b THEN b ELSE a

\* canvas.fill(color)
Filled(color) == [p \in Pixels |-> color]

\* Writing a colour to a set of coordinates; coordinates off the surface
\* are clipped, as pygame's drawing routines clip to the surface.
Paint(cv, S, color) == [p \in Pixels |-> IF p \in S THEN color ELSE cv[p]]

\* ------------------------------------------------------------------------
\* Drawing functions
\* ------------------------------------------------------------------------
\* The centre pixels of a line: Bresenham's walk from (x1, y1) to (x2, y2).
RECURSIVE Bresenham(_, _, _, _, _, _, _, _, _)
Bresenham(x1, y1, x2, y2, dx, dy, sx, sy, err) ==
    IF x1 = x2 /\ y1 = y2
    THEN {<<x2, y2>>}
    ELSE LET stepx == err > -dx
             stepy == err < dy
             e1 == IF stepx THEN err - dy ELSE err
             e2 == IF stepy THEN e1 + dx ELSE e1
         IN {<<x1, y1>>} \cup
            Bresenham(IF stepx THEN x1 + sx ELSE x1, IF stepy THEN y1 + sy ELSE y1,
                      x2, y2, dx, dy, sx, sy, e2)

LineCentre(start, end) ==
    LET dx == Abs(end[1] - start[1])
        dy == Abs(end[2] - start[2])
        sx == IF start[1] < end[1] THEN 1 ELSE -1
        sy == IF start[2] < end[2] THEN 1 ELSE -1
        err == IF dx > dy THEN dx \div 2 ELSE -(dy \div 2)
    IN Bresenham(start[1], start[2], end[1], end[2], dx, dy, sx, sy, err)

\* The pixels pygame.draw.line covers: the centre walk, each pixel widened
\* to `size` pixels across the line's minor axis (along x when the line is
\* at least as tall as it is wide, a zero-length line included).
LinePixels(start, end, size) ==
    LET half == size \div 2
        extra == 1 - (size % 2)
        alongX == Abs(end[1] - start[1]) <= Abs(end[2] - start[2])
    IN IF size = 1
       THEN LineCentre(start, end)
       ELSE UNION {IF alongX
                   THEN {<<x, c[2]>> : x \in (c[1] - half + extra) .. (c[1] + half)}
                   ELSE {<<c[1], y>> : y \in (c[2] - half + extra) .. (c[2] + half)}
                   : c \in LineCentre(start, end)}

\* The pixels of a filled disc of the given radius.
DiscPixels(pos, radius) ==
    {p \in Pixels :
        (p[1] - pos[1]) * (p[1] - pos[1]) + (p[2] - pos[2]) * (p[2] - pos[2])
            <= radius * radius}

draw_pencil(cv, color, pos, size) == Paint(cv, DiscPixels(pos, size), color)

draw_eraser(cv, pos, size) == Paint(cv, DiscPixels(pos, size), WHITE)

draw_line(cv, color, start, end, size) == Paint(cv, LinePixels(start, end, size), color)

\* Faulty variant of RectPixels: the rect starts at the press position
\* instead of the smaller coordinate of each axis.
RectPixelsFromStart(start, end, size) ==
    LET left == start[1]
        top == start[2]
        w == Abs(end[1] - start[1])
        h == Abs(end[2] - start[2])
        inside == {p \in Pixels : /\ left <= p[1] /\ p[1] <= left + w - 1
                                  /\ top <= p[2] /\ p[2] <= top + h - 1}
    IN IF 2 * size < w /\ 2 * size < h
       THEN {p \in inside : \/ p[1] < left + size \/ p[1] > left + w - 1 - size
                            \/ p[2] < top + size \/ p[2] > top + h - 1 - size}
       ELSE inside

\* pygame.Rect(left, top, w, h) covers columns left .. left + w - 1 and rows
\* top .. top + h - 1.  pygame.draw.rect draws nothing for an empty rect, a
\* border of `size` pixels growing inwards when 2 * size is less than both
\* sides, and the whole rect otherwise.
RectPixels(start, end, size) ==
    LET left == Min(start[1], end[1])
        top == Min(start[2], end[2])
        w == Abs(end[1] - start[1])
        h == Abs(end[2] - start[2])
        inside == {p \in Pixels : /\ left <= p[1] /\ p[1] <= left + w - 1
                                  /\ top <= p[2] /\ p[2] <= top + h - 1}
    IN IF 2 * size < w /\ 2 * size < h
       THEN {p \in inside : \/ p[1] < left + size \/ p[1] > left + w - 1 - size
                            \/ p[2] < top + size \/ p[2] > top + h - 1 - size}
       ELSE inside

draw_rectangle(cv, color, start, end, size) ==
    Paint(cv, RectPixels(start, end, size), color)

\* int(math.sqrt(n)): the integer square root.
ISqrt(n) == CHOOSE r \in 0 .. n : r * r <= n /\ (r + 1) * (r + 1) > n

\* Faulty variant of CircleRadius: the distance rounded to the nearest
\* integer.
CircleRadiusRounded(start, end) ==
    LET n == (end[1] - start[1]) * (end[1] - start[1])
             + (end[2] - start[2]) * (end[2] - start[2])
    IN CHOOSE r \in 0 .. n + 1 :
           /\ 4 * n < (2 * r + 1) * (2 * r + 1)
           /\ r = 0 \/ (2 * r - 1) * (2 * r - 1) <= 4 * n

CircleRadius(start, end) ==
    ISqrt((end[1] - start[1]) * (end[1] - start[1])
          + (end[2] - start[2]) * (end[2] - start[2]))

\* pygame.draw.circle with a width: nothing for a radius below 1, the ring
\* between radius - width and radius, the whole disc when width >= radius.
CirclePixels(start, end, size) ==
    LET radius == CircleRadius(start, end)
        inner == radius - size
    IN IF radius < 1 THEN {}
       ELSE IF inner <= 0 THEN DiscPixels(start, radius)
       ELSE DiscPixels(start, radius) \ DiscPixels(start, inner)

draw_circle(cv, color, start, end, size) ==
    Paint(cv, CirclePixels(start, end, size), color)

\* ------------------------------------------------------------------------
\* fill_bucket
\* ------------------------------------------------------------------------
InBounds(p) == /\ 0 <= p[1] /\ p[1] < CANVAS_WIDTH
               /\ 0 <= p[2] /\ p[2] < CANVAS_HEIGHT

\* Faulty variants of Adjacent: one direction forgotten; the diagonals added.
AdjacentWithoutUp == <<<<1, 0>>, <<-1, 0>>, <<0, 1>>>>
AdjacentWithDiagonals ==
    <<<<1, 0>>, <<-1, 0>>, <<0, 1>>, <<0, -1>>, <<1, 1>>, <<-1, -1>>, <<1, -1>>, <<-1, 1>>>>

\* The offsets of the inner for loop, in the order of the source.
Adjacent == <<<<1, 0>>, <<-1, 0>>, <<0, 1>>, <<0, -1>>>>

NewPositions(p) == [i \in DOMAIN Adjacent |-> <<p[1] + Adjacent[i][1], p[2] + Adjacent[i][2]>>]

\* Does the iteration that pops p recolour it?
Recolours(cv, p, target) == InBounds(p) /\ cv[p] = target

\* Faulty variant of Appended: the visited set is not consulted.
AppendedUnchecked(cv, seen, p, target) ==
    IF Recolours(cv, p, target) THEN NewPositions(p) ELSE <<>>

\* The positions the iteration that pops p appends to the queue.
Appended(cv, seen, p, target) ==
    IF Recolours(cv, p, target)
    THEN SelectSeq(NewPositions(p), LAMBDA n : n \notin seen)
    ELSE <<>>

\* One iteration of `while queue:` on the locals (canvas, queue, visited).
LoopBody(st, target, color) ==
    LET p == Head(st.queue)
        new == Appended(st.canvas, st.visited, p, target)
    IN [canvas |-> IF Recolours(st.canvas, p, target)
                   THEN [st.canvas EXCEPT ![p] = color]
                   ELSE st.canvas,
        queue |-> Tail(st.queue) \o new,
        visited |-> st.visited \cup {new[i] : i \in DOMAIN new}]

RECURSIVE WhileQueue(_, _, _)
WhileQueue(st, target, color) ==
    IF st.queue = <<>> THEN st.canvas
    ELSE WhileQueue(LoopBody(st, target, color), target, color)

\* The canvas after fill_bucket(pos) with the given current colour.
fill_bucket(cv, pos, color) ==
    IF cv[pos] = color
    THEN cv
    ELSE WhileQueue([canvas |-> cv, queue |-> <<pos>>, visited |-> {pos}], cv[pos], color)

\* ------------------------------------------------------------------------
\* State
\* ------------------------------------------------------------------------
VARIABLES
    canvas,         \* the drawing surface
    drawing,        \* True when mouse is pressed
    last_pos,       \* previous mouse position (for continuous drawing)
    current_color,
    current_tool,
    brush_size,
    start_pos,      \* starting point for shapes
    temp_surface,   \* copy of the canvas taken when a shape is started
    mouse_pos,      \* the position sampled at the top of the current frame
    pressed,        \* is the left mouse button physically down
    events,         \* events dispatched so far in the current frame
    frames,         \* frames completed so far
    rendered,       \* has the current frame done its drawing and rendering
    screen,         \* the canvas area of the display after the last render
    calls,          \* the canvas operations the last step performed
    gesture,        \* history of the press in progress: the canvas and position
                    \* at the press, whether the pointer has moved since, its
                    \* last position on the canvas, its last position on the
                    \* canvas in a frame that has ended, and whether a frame
                    \* has ended with the pointer off the canvas
    pc,             \* fill_bucket: "idle", "loop" or "done"
    pos,            \* fill_bucket: the seed
    target_color,   \* fill_bucket: local
    queue,          \* fill_bucket: local
    visited,        \* fill_bucket: local
    canvas0,        \* history: the canvas when fill_bucket was called
    appended,       \* history: every position appended to the queue, in order
    written         \* history: every position passed to canvas.set_at

loopVars == <<drawing, last_pos, current_tool, brush_size, start_pos, temp_surface,
              mouse_pos, pressed, events, frames, rendered, screen, calls, gesture>>
fillVars == <<pc, pos, target_color, queue, visited, canvas0, appended, written>>
vars == <<canvas, current_color, loopVars, fillVars>>

\* Bounds of the exploration: the frames of a run and the events one frame
\* dispatches.
MaxFrames == 2
MaxEventsPerFrame == 2

\* ------------------------------------------------------------------------
\* The window: the canvas occupies x < CANVAS_WIDTH; every button lies in
\* the toolbar to its right.  Each button is one point of the window.
\* ------------------------------------------------------------------------
ToolbarBackground == <<CANVAS_WIDTH, 0>>
color_buttons == [i \in DOMAIN palette_colors |-> <<CANVAS_WIDTH + 1, i>>]
tool_buttons == [i \in DOMAIN tools |-> <<CANVAS_WIDTH + 2, i>>]
brush_buttons == [i \in DOMAIN BRUSH_SIZES |-> <<CANVAS_WIDTH + 3, i>>]
clear_button == <<CANVAS_WIDTH + 4, 0>>

Range(f) == {f[i] : i \in DOMAIN f}

WindowPositions ==
    Pixels \cup {ToolbarBackground, clear_button}
           \cup Range(color_buttons) \cup Range(tool_buttons) \cup Range(brush_buttons)

\* Lines 214-215: the position when it lies within the canvas, else None.
canvas_mouse_pos == IF InBounds(mouse_pos) THEN mouse_pos ELSE None

fillIdle ==
    /\ pc = "idle" /\ pos = None /\ target_color = None /\ queue = <<>>
    /\ visited = {} /\ canvas0 = None /\ appended = <<>> /\ written = {}

Init ==
    /\ canvas = Filled(WHITE)
    /\ drawing = FALSE
    /\ last_pos = None
    /\ current_color = BLACK
    /\ current_tool = "pencil"
    /\ brush_size = 5
    /\ start_pos = None
    /\ temp_surface = None
    /\ mouse_pos \in WindowPositions
    /\ pressed = FALSE
    /\ events = 0
    /\ frames = 0
    /\ rendered = FALSE
    /\ screen = None
    /\ calls = <<>>
    /\ gesture = None
    /\ fillIdle

\* ------------------------------------------------------------------------
\* The main loop
\* ------------------------------------------------------------------------
Call(fn, color, a, b, size) == [fn |-> fn, color |-> color, a |-> a, b |-> b, size |-> size]

\* Faulty variant of FinalShape: the circle branch calls draw_rectangle.
FinalShapeCircleAsRectangle(cv, tool, color, start, end, size) ==
    CASE tool = "line" -> draw_line(cv, color, start, end, size)
      [] tool = "rectangle" -> draw_rectangle(cv, color, start, end, size)
      [] tool = "circle" -> draw_rectangle(cv, color, start, end, size)
      [] OTHER -> cv

\* Lines 242-253: the shape drawn when the button is released.
FinalShape(cv, tool, color, start, end, size) ==
    CASE tool = "line" -> draw_line(cv, color, start, end, size)
      [] tool = "rectangle" -> draw_rectangle(cv, color, start, end, size)
      [] tool = "circle" -> draw_circle(cv, color, start, end, size)
      [] OTHER -> cv

\* Lines 242, 246, 250: is a shape finalized on release?
Finalizes == current_tool \in ShapeTools /\ Truthy(start_pos) /\ Truthy(temp_surface)

\* Lines 281-293: the canvas after the continuous drawing of one frame.  Both
\* the pencil and the eraser call draw_line, which uses current_color, while
\* a previous position is known.
ContinuousDrawing(cv, tool, color, last, cmp, size) ==
    CASE tool = "pencil" -> IF Truthy(last)
                            THEN draw_line(cv, color, last, cmp, size)
                            ELSE draw_pencil(cv, color, cmp, size)
      [] tool = "eraser" -> IF Truthy(last)
                            THEN draw_line(cv, color, last, cmp, size)
                            ELSE draw_eraser(cv, cmp, size)
      [] OTHER -> cv

ContinuousCalls(tool, color, last, cmp, size) ==
    CASE tool = "pencil" -> IF Truthy(last)
                            THEN <<Call("draw_line", color, last, cmp, size)>>
                            ELSE <<Call("draw_pencil", color, cmp, None, size)>>
      [] tool = "eraser" -> IF Truthy(last)
                            THEN <<Call("draw_line", color, last, cmp, size)>>
                            ELSE <<Call("draw_eraser", WHITE, cmp, None, size)>>
      [] OTHER -> <<>>

\* Faulty variant of PressCanvas: the fill branch is missing.
PressCanvasWithoutFill(cv, tool, color, cmp) == cv

\* Lines 232-235: the canvas and the snapshot after a press on the canvas.
PressCanvas(cv, tool, color, cmp) ==
    IF tool = "fill" THEN fill_bucket(cv, cmp, color) ELSE cv

PressSnapshot(cv, temp, tool) ==
    IF tool \in ShapeTools THEN cv ELSE temp

PressCalls(tool, color, cmp) ==
    IF tool = "fill" THEN <<Call("fill_bucket", color, cmp, None, 0)>>
    ELSE IF tool \in ShapeTools THEN <<Call("copy", None, None, None, 0)>>
    ELSE <<>>

\* Faulty variant of ClickClear: the clear button does nothing.
ClickClearIgnored(cv, mp) == cv

\* Lines 276-278: the canvas after a click, which the clear button fills
\* with white.
ClickClear(cv, mp) == IF mp = clear_button THEN Filled(WHITE) ELSE cv

\* One MOUSEBUTTONDOWN event of button 1 dispatched by the for loop (lines
\* 218-278): the canvas branch when the sampled position is on the canvas,
\* the button whose rect holds the position otherwise.
MouseButtonDown ==
    /\ pc = "idle"
    /\ ~rendered
    /\ ~pressed
    /\ events < MaxEventsPerFrame
    /\ pressed' = TRUE
    /\ events' = events + 1
    /\ IF Truthy(canvas_mouse_pos)
       THEN /\ drawing' = TRUE
            /\ last_pos' = canvas_mouse_pos
            /\ start_pos' = canvas_mouse_pos
            /\ canvas' = PressCanvas(canvas, current_tool, current_color, canvas_mouse_pos)
            /\ temp_surface' = PressSnapshot(canvas, temp_surface, current_tool)
            /\ calls' = PressCalls(current_tool, current_color, canvas_mouse_pos)
            /\ gesture' = [canvas |-> canvas, pos |-> canvas_mouse_pos, moved |-> FALSE,
                            last |-> canvas_mouse_pos, prev |-> canvas_mouse_pos,
                            left |-> FALSE]
            /\ UNCHANGED <<current_color, current_tool, brush_size>>
       ELSE /\ current_color' = IF \E i \in DOMAIN color_buttons : color_buttons[i] = mouse_pos
                                THEN palette_colors[CHOOSE i \in DOMAIN color_buttons :
                                                        color_buttons[i] = mouse_pos]
                                ELSE current_color
            /\ current_tool' = IF \E i \in DOMAIN tool_buttons : tool_buttons[i] = mouse_pos
                               THEN tools[CHOOSE i \in DOMAIN tool_buttons :
                                              tool_buttons[i] = mouse_pos]
                               ELSE current_tool
            /\ brush_size' = IF \E i \in DOMAIN brush_buttons : brush_buttons[i] = mouse_pos
                             THEN BRUSH_SIZES[CHOOSE i \in DOMAIN brush_buttons :
                                                  brush_buttons[i] = mouse_pos]
                             ELSE brush_size
            /\ canvas' = ClickClear(canvas, mouse_pos)
            /\ calls' = IF mouse_pos = clear_button
                        THEN <<Call("fill", WHITE, None, None, 0)>> ELSE <<>>
            /\ gesture' = None
            /\ UNCHANGED <<drawing, last_pos, start_pos, temp_surface>>
    /\ UNCHANGED <<mouse_pos, frames, rendered, screen, fillVars>>

\* Faulty variant of MouseButtonUp: a release on the canvas keeps last_pos.
MouseButtonUpKeepsLastPos ==
    /\ pc = "idle"
    /\ ~rendered
    /\ pressed
    /\ events < MaxEventsPerFrame
    /\ pressed' = FALSE
    /\ events' = events + 1
    /\ gesture' = None
    /\ IF Truthy(canvas_mouse_pos)
       THEN /\ drawing' = FALSE
            /\ canvas' = IF Finalizes
                         THEN FinalShape(temp_surface, current_tool, current_color,
                                         start_pos, canvas_mouse_pos, brush_size)
                         ELSE canvas
            /\ temp_surface' = IF Finalizes THEN None ELSE temp_surface
            /\ calls' = IF Finalizes
                        THEN <<Call("blit", None, None, None, 0),
                               Call(current_tool, current_color, start_pos,
                                    canvas_mouse_pos, brush_size)>>
                        ELSE <<>>
            /\ UNCHANGED last_pos
       ELSE /\ calls' = <<>>
            /\ UNCHANGED <<canvas, drawing, temp_surface, last_pos>>
    /\ UNCHANGED <<current_color, current_tool, brush_size, start_pos, mouse_pos,
                   frames, rendered, screen, fillVars>>

\* One MOUSEBUTTONUP event of button 1 (lines 238-254); no button reacts to
\* it, and off the canvas nothing does.
MouseButtonUp ==
    /\ pc = "idle"
    /\ ~rendered
    /\ pressed
    /\ events < MaxEventsPerFrame
    /\ pressed' = FALSE
    /\ events' = events + 1
    /\ gesture' = None
    /\ IF Truthy(canvas_mouse_pos)
       THEN /\ drawing' = FALSE
            /\ canvas' = IF Finalizes
                         THEN FinalShape(temp_surface, current_tool, current_color,
                                         start_pos, canvas_mouse_pos, brush_size)
                         ELSE canvas
            /\ temp_surface' = IF Finalizes THEN None ELSE temp_surface
            /\ calls' = IF Finalizes
                        THEN <<Call("blit", None, None, None, 0),
                               Call(current_tool, current_color, start_pos,
                                    canvas_mouse_pos, brush_size)>>
                        ELSE <<>>
            /\ last_pos' = None
       ELSE /\ calls' = <<>>
            /\ UNCHANGED <<canvas, drawing, temp_surface, last_pos>>
    /\ UNCHANGED <<current_color, current_tool, brush_size, start_pos, mouse_pos,
                   frames, rendered, screen, fillVars>>

\* Is the frame's continuous drawing (lines 281-293) performed?
Draws == drawing /\ Truthy(canvas_mouse_pos) /\ current_tool \in {"pencil", "eraser"}

\* Faulty variant of FrameLastPos: a frame that draws nothing forgets the
\* previous position.
FrameLastPosForgets(last, cmp, draws) == IF draws THEN cmp ELSE None

\* Lines 281-293: last_pos after the continuous drawing of one frame, which
\* assigns it only where it draws.
FrameLastPos(last, cmp, draws) == IF draws THEN cmp ELSE last

\* Faulty variant of Preview: the circle branch draws a rectangle.
PreviewCircleAsRectangle(temp, tool, color, start, cmp, size) ==
    CASE tool = "line" -> draw_line(temp, color, start, cmp, size)
      [] tool = "rectangle" -> draw_rectangle(temp, color, start, cmp, size)
      [] tool = "circle" -> draw_rectangle(temp, color, start, cmp, size)
      [] OTHER -> temp

\* Lines 364-376: the canvas area of the screen under a shape preview: the
\* snapshot, and over it the shape from start_pos to the pointer (the same
\* pygame calls as the drawing functions, aimed at the screen).
Preview(temp, tool, color, start, cmp, size) ==
    CASE tool = "line" -> draw_line(temp, color, start, cmp, size)
      [] tool = "rectangle" -> draw_rectangle(temp, color, start, cmp, size)
      [] tool = "circle" -> draw_circle(temp, color, start, cmp, size)
      [] OTHER -> temp

\* Line 363: is the preview rendered this frame?
Previews ==
    drawing /\ Truthy(temp_surface) /\ Truthy(start_pos) /\ Truthy(canvas_mouse_pos)

\* The rest of a frame once its events are handled: the continuous drawing
\* of lines 280-293 and the render of lines 298-378, which blits the canvas
\* to the screen (line 302) and then the preview over it.
EndOfFrame ==
    /\ pc = "idle"
    /\ ~rendered
    /\ rendered' = TRUE
    /\ canvas' = IF Draws
                 THEN ContinuousDrawing(canvas, current_tool, current_color, last_pos,
                                        canvas_mouse_pos, brush_size)
                 ELSE canvas
    /\ calls' = IF Draws
                THEN ContinuousCalls(current_tool, current_color, last_pos,
                                     canvas_mouse_pos, brush_size)
                ELSE <<>>
    /\ last_pos' = FrameLastPos(last_pos, canvas_mouse_pos, Draws)
    /\ screen' = IF Previews
                 THEN Preview(temp_surface, current_tool, current_color, start_pos,
                              canvas_mouse_pos, brush_size)
                 ELSE canvas'
    /\ events' = 0
    /\ gesture' = IF Truthy(gesture)
                  THEN IF InBounds(mouse_pos)
                       THEN [gesture EXCEPT !.prev = mouse_pos]
                       ELSE [gesture EXCEPT !.left = TRUE]
                  ELSE gesture
    /\ UNCHANGED <<drawing, current_color, current_tool, brush_size, start_pos,
                   temp_surface, mouse_pos, pressed, frames, fillVars>>

\* The next iteration's sample of the mouse position (lines 212-215), which
\* may be any point of the window, while fewer than `limit` frames are done.
Sample(p, limit) ==
    /\ pc = "idle"
    /\ rendered
    /\ frames < limit
    /\ rendered' = FALSE
    /\ mouse_pos' = p
    /\ frames' = frames + 1
    /\ gesture' = IF Truthy(gesture) /\ p # mouse_pos
                  THEN [gesture EXCEPT !.moved = TRUE,
                                       !.last = IF InBounds(p) THEN p ELSE @]
                  ELSE gesture
    /\ UNCHANGED <<canvas, drawing, last_pos, current_color, current_tool, brush_size,
                   start_pos, temp_surface, pressed, events, screen, calls, fillVars>>

Tick(p) == Sample(p, MaxFrames)

Next ==
    \/ MouseButtonDown
    \/ MouseButtonUp
    \/ EndOfFrame
    \/ \E p \in WindowPositions : Tick(p)

Spec == Init /\ [][Next]_vars

\* ------------------------------------------------------------------------
\* The shape tools on every pair of points
\* ------------------------------------------------------------------------
\* The states in which a shape gesture is about to end: some shape tool,
\* colour and brush size are selected, the button went down at start_pos on
\* a white canvas, which the snapshot holds (lines 227-235), and the pointer
\* is now at any pixel of the canvas.
InitShapes ==
    /\ canvas = Filled(WHITE)
    /\ temp_surface = canvas
    /\ drawing = TRUE
    /\ current_color \in Colors
    /\ current_tool \in ShapeTools
    /\ brush_size \in Range(BRUSH_SIZES)
    /\ start_pos \in Pixels
    /\ last_pos = start_pos
    /\ mouse_pos \in Pixels
    /\ pressed = TRUE
    /\ events = 0
    /\ frames = 0
    /\ rendered = FALSE
    /\ screen = None
    /\ calls = <<>>
    /\ gesture = [canvas |-> canvas, pos |-> start_pos, moved |-> mouse_pos # start_pos,
                  last |-> mouse_pos, prev |-> start_pos, left |-> FALSE]
    /\ fillIdle

\* The frame either handles the release, which commits the shape, or ends
\* with the button held, which renders the preview.
NextShapes ==
    \/ MouseButtonUp
    \/ EndOfFrame

SpecShapes == InitShapes /\ [][NextShapes]_vars

\* ------------------------------------------------------------------------
\* The main loop over more frames, with the pointer on fewer positions
\* ------------------------------------------------------------------------
MaxLongFrames == 4

\* The pointer visits two pixels of the canvas, the pencil and line buttons
\* and the clear button.
LongPositions ==
    {<<0, 0>>, <<CANVAS_WIDTH - 1, CANVAS_HEIGHT - 1>>,
     tool_buttons[1], tool_buttons[3], clear_button}

InitLong == Init /\ mouse_pos \in LongPositions

NextLong ==
    \/ MouseButtonDown
    \/ MouseButtonUp
    \/ EndOfFrame
    \/ \E p \in LongPositions : Sample(p, MaxLongFrames)

SpecLong == InitLong /\ [][NextLong]_vars

\* ------------------------------------------------------------------------
\* fill_bucket, one loop iteration at a time
\* ------------------------------------------------------------------------
\* The canvases fill_bucket is started on: white with at most MaxInk pixels
\* drawn in black.
MaxInk == 2

FillCanvases ==
    {cv \in [Pixels -> {WHITE, BLACK}] : Cardinality({p \in Pixels : cv[p] = BLACK}) <= MaxInk}

\* The state at the call of line 233: the fill tool is selected and the
\* button has just been pressed at the seed.
InitFill ==
    /\ canvas \in FillCanvases
    /\ current_color \in Colors
    /\ pos \in Pixels
    /\ mouse_pos = pos
    /\ drawing = TRUE
    /\ last_pos = pos
    /\ start_pos = pos
    /\ current_tool = "fill"
    /\ brush_size = 5
    /\ temp_surface = None
    /\ pressed = TRUE
    /\ events = 1
    /\ frames = 0
    /\ rendered = FALSE
    /\ screen = None
    /\ calls = <<>>
    /\ gesture = None
    /\ pc = "call"
    /\ target_color = None
    /\ queue = <<>>
    /\ visited = {}
    /\ canvas0 = canvas
    /\ appended = <<>>
    /\ written = {}

\* Faulty variant of FillEnter: the early return of lines 183-184 is missing.
FillEnterWithoutReturn ==
    /\ pc = "call"
    /\ target_color' = canvas[pos]
    /\ pc' = "loop"
    /\ queue' = <<pos>>
    /\ visited' = {pos}
    /\ appended' = <<pos>>
    /\ UNCHANGED <<canvas, current_color, loopVars, pos, canvas0, written>>

\* Lines 182-188: read the target colour; return at once when it is the
\* current colour, else start the queue and the visited set with the seed.
FillEnter ==
    /\ pc = "call"
    /\ target_color' = canvas[pos]
    /\ IF canvas[pos] = current_color
       THEN /\ pc' = "done"
            /\ UNCHANGED <<queue, visited, appended>>
       ELSE /\ pc' = "loop"
            /\ queue' = <<pos>>
            /\ visited' = {pos}
            /\ appended' = <<pos>>
    /\ UNCHANGED <<canvas, current_color, loopVars, pos, canvas0, written>>

\* Lines 190-202: one iteration of the while loop.
FillIterate ==
    /\ pc = "loop"
    /\ queue # <<>>
    /\ LET st == LoopBody([canvas |-> canvas, queue |-> queue, visited |-> visited],
                          target_color, current_color)
       IN /\ canvas' = st.canvas
          /\ queue' = st.queue
          /\ visited' = st.visited
    /\ appended' = appended \o Appended(canvas, visited, Head(queue), target_color)
    /\ written' = IF Recolours(canvas, Head(queue), target_color)
                  THEN written \cup {Head(queue)}
                  ELSE written
    /\ UNCHANGED <<current_color, loopVars, pc, pos, target_color, canvas0>>

\* Line 190: the queue is empty and the function returns.
FillReturn ==
    /\ pc = "loop"
    /\ queue = <<>>
    /\ pc' = "done"
    /\ UNCHANGED <<canvas, current_color, loopVars, pos, target_color, queue, visited,
                   canvas0, appended, written>>

NextFill == FillEnter \/ FillIterate \/ FillReturn

SpecFill == InitFill /\ [][NextFill]_vars

\* The loop of fill_bucket never waits: a started call keeps iterating.
SpecFillFair == SpecFill /\ WF_vars(NextFill)

\* ------------------------------------------------------------------------
\* Properties of fill_bucket
\* ------------------------------------------------------------------------
Diagonal(p, q) == Abs(p[1] - q[1]) = 1 /\ Abs(p[2] - q[2]) = 1

\* The pixels orthogonally next to q.
Beside(q) ==
    {<<q[1] + 1, q[2]>>, <<q[1] - 1, q[2]>>, <<q[1], q[2] + 1>>, <<q[1], q[2] - 1>>}
        \cap Pixels

\* The 4-connected region of the seed: the least set holding the seed and
\* closed under stepping to an orthogonal neighbour of the seed's colour.
\* S is the part found so far, F the pixels of S found last.
RECURSIVE Grow(_, _, _, _)
Grow(cv, color, S, F) ==
    LET T == {p \in UNION {Beside(q) : q \in F} : cv[p] = color} \ S
    IN IF T = {} THEN S ELSE Grow(cv, color, S \cup T, T)

Region(cv, seed) == Grow(cv, cv[seed], {seed}, {seed})

Border(R) == UNION {Beside(q) : q \in R} \ R

NoDuplicates(s) == Cardinality({s[i] : i \in DOMAIN s}) = Len(s)

\* C2: when the seed lies in a 4-connected region R of colour C whose
\* bordering pixels all have one colour D # C, and the current colour E is
\* not C, fill_bucket returns with every pixel of R coloured E and every
\* other pixel as it was (a uniform canvas becomes entirely E).
C2_FillRecoloursRegion ==
    (pc = "done" /\ canvas0[pos] # current_color)
    => \A R \in {Region(canvas0, pos)} :
          (\E D \in Colors : D # canvas0[pos] /\ \A b \in Border(R) : canvas0[b] = D)
          => /\ \A p \in R : canvas[p] = current_color
             /\ \A p \in Pixels \ R : canvas[p] = canvas0[p]

\* C2's case: a fill has returned after recolouring a region of several
\* pixels that has a border inside the canvas.
C2_Witness ==
    /\ pc = "done"
    /\ canvas0[pos] # current_color
    /\ \E R \in {Region(canvas0, pos)} :
          /\ Cardinality(R) >= 2
          /\ Border(R) # {}
          /\ \A p \in R : canvas[p] = current_color

\* C3: at every point of a fill, a pixel of the target colour with no
\* orthogonal path of target-coloured pixels to the seed is neither written
\* nor recoloured, even when it touches the region diagonally.
C3_FourConnected ==
    pc \in {"loop", "done"}
    => \A p \in {q \in Pixels : canvas0[q] = target_color} \ Region(canvas0, pos) :
          canvas[p] = canvas0[p] /\ p \notin written

\* C3's case: a fill has returned, and a pixel of the target colour outside
\* the region touches a recoloured pixel diagonally.
C3_Witness ==
    /\ pc = "done"
    /\ written # {}
    /\ \E p \in Pixels \ Region(canvas0, pos) :
          /\ canvas0[p] = target_color
          /\ \E q \in written : Diagonal(p, q)

\* C4: when the seed pixel already has the current colour, fill_bucket
\* returns without writing any pixel, and the canvas is as it was.
C4_SameColourNoop ==
    (pc = "done" /\ canvas0[pos] = current_color)
    => (canvas = canvas0 /\ written = {})

\* C4's case: fill_bucket has returned from a call on a seed of the current
\* colour, on a canvas that also holds another colour.
C4_Witness ==
    /\ pc = "done"
    /\ canvas0[pos] = current_color
    /\ \E p \in Pixels : canvas0[p] # current_color

\* The most positions a call can append: every pixel of the canvas and the
\* ring of off-canvas positions orthogonally next to it.
AppendBound == CANVAS_WIDTH * CANVAS_HEIGHT + 2 * (CANVAS_WIDTH + CANVAS_HEIGHT)

\* C5 as stated: no position is appended twice and at most width x height
\* positions are appended.
C5_Original ==
    /\ NoDuplicates(appended)
    /\ Len(appended) <= CANVAS_WIDTH * CANVAS_HEIGHT

\* C5, amended: fill_bucket terminates, no position is appended to the queue
\* twice, and the positions appended (off-canvas neighbours included) number
\* at most width x height + 2 x (width + height).
C5_TerminatesBounded ==
    /\ [](NoDuplicates(appended) /\ Len(appended) <= AppendBound)
    /\ <>(pc = "done")

\* C5's case: a fill has returned after appending more than width x height
\* positions.
C5_Witness ==
    /\ pc = "done"
    /\ Len(appended) > CANVAS_WIDTH * CANVAS_HEIGHT

\* ------------------------------------------------------------------------
\* Properties of the main loop
\* ------------------------------------------------------------------------
\* The kind of a step, read off the variables it changes.
IsDown == ~pressed /\ pressed'
IsUp == pressed /\ ~pressed'
IsTick == ~rendered /\ rendered'

\* A press on the canvas is in progress and the position sampled for the
\* current frame is on the canvas.
PressedOnCanvas == Truthy(gesture) /\ Truthy(canvas_mouse_pos)

\* The outline a shape tool is to commit, over a given canvas.
Outline(cv, tool, color, anchor, end, size) ==
    IF tool = "line" THEN draw_line(cv, color, anchor, end, size)
    ELSE IF tool = "rectangle" THEN draw_rectangle(cv, color, anchor, end, size)
    ELSE draw_circle(cv, color, anchor, end, size)

\* C1: when a press on the canvas with a shape tool is followed, after any
\* number of frames with no event, by a release on the canvas, the canvas
\* after the release is the canvas as it was at the press with the outline
\* from the press position to the release position drawn over it.
C1_ShapeCommit ==
    [][(IsUp /\ PressedOnCanvas /\ current_tool \in ShapeTools)
       => canvas' = Outline(gesture.canvas, current_tool, current_color,
                            gesture.pos, canvas_mouse_pos, brush_size)]_vars

\* C1's case: a release has just committed a shape whose release point is
\* not its anchor point, so the pointer moved during the gesture.
C1_Witness ==
    /\ Len(calls) = 2
    /\ calls[1].fn = "blit"
    /\ calls[2].fn \in ShapeTools
    /\ calls[2].a # calls[2].b
    /\ ~pressed
    /\ frames >= 2
    /\ \E p \in Pixels : canvas[p] = calls[2].color /\ canvas[p] # WHITE

\* C6 as stated: while the eraser is selected and drawing is true, a frame
\* with the pointer on the canvas changes pixels only to the background
\* colour white.
C6_EraserWritesBackground ==
    [][(IsTick /\ current_tool = "eraser" /\ drawing /\ Truthy(canvas_mouse_pos))
       => \A p \in Pixels : canvas'[p] # canvas[p] => canvas'[p] = WHITE]_vars

\* C7 as stated: with the pencil selected, a release at the position of the
\* press, the pointer not having moved in between, leaves the canvas as it
\* was at the press with a filled disc of radius brush_size drawn at that
\* position.
C7_ClickDrawsDot ==
    [][(IsUp /\ PressedOnCanvas /\ current_tool = "pencil" /\ ~gesture.moved)
       => canvas' = draw_pencil(gesture.canvas, current_color, gesture.pos, brush_size)]_vars

\* C8 as stated: a release with the pointer off the canvas during a shape
\* gesture commits the outline from the anchor to the last position on the
\* canvas, discards the snapshot and ends the gesture.
C8_ReleaseOutsideFinalizes ==
    [][(/\ IsUp
        /\ ~Truthy(canvas_mouse_pos)
        /\ Truthy(gesture)
        /\ drawing
        /\ current_tool \in ShapeTools
        /\ Truthy(temp_surface))
       => /\ canvas' = Outline(temp_surface, current_tool, current_color,
                               gesture.pos, gesture.last, brush_size)
          /\ temp_surface' = None
          /\ ~drawing']_vars

\* C9 as stated: temp_surface is None whenever drawing is false or the
\* selected tool is not a shape tool.
C9_SnapshotOnlyWhileShaping ==
    (~drawing \/ current_tool \notin ShapeTools) => temp_surface = None

\* C10 as stated: a press on the canvas with the fill tool calls fill_bucket
\* once with the press position, and afterwards drawing is false and neither
\* start_pos nor last_pos is set.
C10_Original ==
    [][(IsDown /\ Truthy(canvas_mouse_pos) /\ current_tool = "fill")
       => /\ calls' = <<Call("fill_bucket", current_color, canvas_mouse_pos, None, 0)>>
          /\ ~drawing'
          /\ start_pos' = None
          /\ last_pos' = None]_vars

\* C10, amended: a press on the canvas with the fill tool calls fill_bucket
\* once with the press position as seed, the canvas becoming that call's
\* result, and takes no snapshot; the press is recorded all the same:
\* afterwards drawing is true and start_pos and last_pos are the press
\* position.
C10_FillPress ==
    [][(IsDown /\ Truthy(canvas_mouse_pos) /\ current_tool = "fill")
       => /\ calls' = <<Call("fill_bucket", current_color, canvas_mouse_pos, None, 0)>>
          /\ canvas' = fill_bucket(canvas, canvas_mouse_pos, current_color)
          /\ temp_surface' = temp_surface
          /\ drawing'
          /\ start_pos' = canvas_mouse_pos
          /\ last_pos' = canvas_mouse_pos]_vars

\* C10's case: the last step was a press with the fill tool that recoloured
\* the seed.
C10_Witness ==
    /\ Len(calls) = 1
    /\ calls[1].fn = "fill_bucket"
    /\ pressed
    /\ current_tool = "fill"
    /\ start_pos = calls[1].a
    /\ canvas[start_pos] = current_color
    /\ gesture.canvas[start_pos] # current_color

\* C11 as stated: a release on the canvas that ends a pencil or eraser
\* press made on the canvas leaves drawing false and both start_pos and
\* last_pos cleared.
C11_Original ==
    [][(IsUp /\ PressedOnCanvas /\ current_tool \in {"pencil", "eraser"})
       => ~drawing' /\ start_pos' = None /\ last_pos' = None]_vars

\* C11: a release on the canvas that ends a pencil or eraser press made on
\* the canvas leaves drawing false and last_pos cleared, and leaves start_pos
\* holding the position of the press.
C11_ReleaseEndsStroke ==
    [][(IsUp /\ PressedOnCanvas /\ current_tool \in {"pencil", "eraser"})
       => ~drawing' /\ last_pos' = None /\ start_pos' = gesture.pos]_vars

\* C11's case: a release on the canvas has just ended a pencil or eraser
\* stroke that an earlier frame drew and rendered.
C11_Witness ==
    /\ ~pressed
    /\ ~rendered
    /\ events >= 1
    /\ InBounds(mouse_pos)
    /\ current_tool \in {"pencil", "eraser"}
    /\ ~drawing
    /\ last_pos = None
    /\ Truthy(start_pos)
    /\ frames >= 1
    /\ screen = canvas
    /\ canvas # Filled(WHITE)

\* C12: while a press made on the canvas with the pencil or the eraser is
\* held, a step of a frame whose pointer position is off the canvas changes
\* neither the canvas nor drawing, last_pos or start_pos; and the end of a
\* frame whose pointer position is on the canvas draws one segment from the
\* last position the pointer had on the canvas in an earlier frame of the
\* press (the press position at first) to the current position, which
\* becomes last_pos.
C12_OutsideIgnoredThenResumes ==
    [][(Truthy(gesture) /\ pressed' /\ current_tool \in {"pencil", "eraser"})
       => /\ ~InBounds(mouse_pos)
             => UNCHANGED <<canvas, drawing, last_pos, start_pos>>
          /\ (IsTick /\ InBounds(mouse_pos))
             => /\ \E c \in Colors :
                    canvas' = draw_line(canvas, c, gesture.prev, mouse_pos, brush_size)
                /\ last_pos' = mouse_pos
                /\ UNCHANGED <<drawing, start_pos>>]_vars

\* C12's case: during a pencil or eraser press a frame ended with the pointer
\* off the canvas, the pointer then came back to another pixel than the one
\* it left from, and the frame drew the segment between the two.
C12_Witness ==
    /\ Truthy(gesture)
    /\ gesture.left
    /\ pressed
    /\ rendered
    /\ InBounds(mouse_pos)
    /\ current_tool \in {"pencil", "eraser"}
    /\ Len(calls) = 1
    /\ calls[1].fn = "draw_line"
    /\ calls[1].a = gesture.pos
    /\ calls[1].b = mouse_pos
    /\ calls[1].a # calls[1].b
    /\ canvas[mouse_pos] = calls[1].color
    /\ last_pos = mouse_pos

\* ------------------------------------------------------------------------
\* Properties of the shape tools
\* ------------------------------------------------------------------------
\* The square of the distance between two points.
Dist2(a, b) == (b[1] - a[1]) * (b[1] - a[1]) + (b[2] - a[2]) * (b[2] - a[2])

\* The pixels of a circle outline of radius r and thickness w around c.
Ring(c, r, w) ==
    {p \in Pixels : /\ r >= 1
                    /\ Dist2(c, p) <= r * r
                    /\ w >= r \/ Dist2(c, p) > (r - w) * (r - w)}

\* A release commits a circle; the end of a frame previews one.
CommitsCircle == IsUp /\ Finalizes /\ Truthy(canvas_mouse_pos) /\ current_tool = "circle"
PreviewsCircle == IsTick /\ Previews /\ current_tool = "circle"

\* The circle committed or previewed by the step is the one of radius r.
DrawsCircleOfRadius(r) ==
    /\ CommitsCircle
       => canvas' = Paint(temp_surface, Ring(start_pos, r, brush_size), current_color)
    /\ PreviewsCircle
       => screen' = Paint(temp_surface, Ring(start_pos, r, brush_size), current_color)

\* C13 as stated: the radius of every circle the circle tool commits or
\* previews is the distance from the centre to the pointer rounded to the
\* nearest integer.
C13_Original ==
    [][(CommitsCircle \/ PreviewsCircle)
       => \E r \in 0 .. (CANVAS_WIDTH + CANVAS_HEIGHT) :
              /\ 4 * Dist2(start_pos, mouse_pos) < (2 * r + 1) * (2 * r + 1)
              /\ r = 0 \/ (2 * r - 1) * (2 * r - 1) <= 4 * Dist2(start_pos, mouse_pos)
              /\ DrawsCircleOfRadius(r)]_vars

\* C13: the radius of every circle the circle tool commits or previews is
\* the distance from the centre to the pointer truncated to an integer: the
\* r with r^2 <= dx^2 + dy^2 < (r+1)^2.
C13_RadiusTruncated ==
    [][(CommitsCircle \/ PreviewsCircle)
       => \E r \in 0 .. (CANVAS_WIDTH + CANVAS_HEIGHT) :
              /\ r * r <= Dist2(start_pos, mouse_pos)
              /\ Dist2(start_pos, mouse_pos) < (r + 1) * (r + 1)
              /\ DrawsCircleOfRadius(r)]_vars

\* C13's case: a circle has been committed whose edge point lies at a
\* distance (the square root of 8) that truncates to 2 and rounds to 3; the
\* circle drawn does not reach the edge point.
C13_Witness ==
    /\ ~pressed
    /\ Len(calls) = 2
    /\ calls[2].fn = "circle"
    /\ Dist2(calls[2].a, calls[2].b) = 8
    /\ calls[2].color # WHITE
    /\ canvas[calls[2].b] = WHITE
    /\ \E p \in Pixels : Dist2(calls[2].a, p) = 4 /\ canvas[p] = calls[2].color

\* The outline of the box whose opposite corners are a and b: the pixels of
\* the box on its extreme columns and rows.
BoxOutline(a, b) ==
    {p \in Pixels : /\ Min(a[1], b[1]) <= p[1] /\ p[1] <= Max(a[1], b[1])
                    /\ Min(a[2], b[2]) <= p[2] /\ p[2] <= Max(a[2], b[2])
                    /\ \/ p[1] \in {a[1], b[1]}
                       \/ p[2] \in {a[2], b[2]}}

\* A release commits a rectangle.
CommitsRectangle ==
    IsUp /\ Finalizes /\ Truthy(canvas_mouse_pos) /\ current_tool = "rectangle"

\* C14 as stated: a rectangle committed with thickness 1 between two corners
\* that differ in both coordinates paints, over the canvas of the press,
\* exactly the outline of the box whose corners are the press and release
\* positions: its extreme columns and rows take the draw colour and every
\* other pixel is unchanged.
C14_OutlineThroughCorners ==
    [][(/\ CommitsRectangle
        /\ brush_size = 1
        /\ start_pos[1] # mouse_pos[1]
        /\ start_pos[2] # mouse_pos[2])
       => canvas' = Paint(temp_surface, BoxOutline(start_pos, mouse_pos), current_color)]_vars

\* C15: a click on the clear button, in whatever state it is made, leaves
\* every pixel of the canvas white and changes neither the tool, the colour
\* and the brush size nor drawing, last_pos, start_pos and the snapshot.
C15_ClearWhitensOnly ==
    [][(IsDown /\ mouse_pos = clear_button)
       => /\ \A p \in Pixels : canvas'[p] = WHITE
          /\ UNCHANGED <<current_tool, current_color, brush_size,
                         drawing, last_pos, start_pos, temp_surface>>]_vars

\* C15's case: the clear button has just been clicked on a canvas that held
\* ink (the ink is still on the screen of the last render), while drawing was
\* still true and a previous position was held.
C15_Witness ==
    /\ pressed
    /\ mouse_pos = clear_button
    /\ Len(calls) = 1
    /\ calls[1].fn = "fill"
    /\ drawing
    /\ Truthy(last_pos)
    /\ screen # None
    /\ screen # Filled(WHITE)
    /\ canvas = Filled(WHITE)

\* C16: the rectangle a release commits does not depend on the direction of
\* the drag: draw_rectangle writes the same pixels when the press and
\* release positions are exchanged, and when it is given the other two
\* opposite corners of the same box in either order.
C16_DragDirectionIrrelevant ==
    [][CommitsRectangle
       => \A c \in {<<mouse_pos, start_pos>>,
                    <<<<start_pos[1], mouse_pos[2]>>, <<mouse_pos[1], start_pos[2]>>>>,
                    <<<<mouse_pos[1], start_pos[2]>>, <<start_pos[1], mouse_pos[2]>>>>} :
              canvas' = draw_rectangle(temp_surface, current_color, c[1], c[2],
                                       brush_size)]_vars

\* C16's case: a rectangle has been committed by a drag towards the upper
\* left, and it painted pixels.
C16_Witness ==
    /\ ~pressed
    /\ Len(calls) = 2
    /\ calls[2].fn = "rectangle"
    /\ calls[2].b[1] < calls[2].a[1]
    /\ calls[2].b[2] < calls[2].a[2]
    /\ calls[2].color # WHITE
    /\ canvas[calls[2].b] = calls[2].color

\* A frame ends during a shape gesture: the press was made on the canvas with
\* a shape tool, the button is still held and the pointer is on the canvas.
PreviewsGesture == IsTick /\ PressedOnCanvas /\ current_tool \in ShapeTools

\* C17 as stated: at the end of every frame of a shape gesture with the
\* pointer on the canvas, the canvas is the snapshot taken at the press with
\* the outline from the press position to the pointer drawn over it.
C17_Original ==
    [][PreviewsGesture
       => canvas' = Outline(gesture.canvas, current_tool, current_color,
                            gesture.pos, mouse_pos, brush_size)]_vars

\* C17: at the end of every frame of a shape gesture with the pointer on the
\* canvas, the canvas is unchanged and still equal to the snapshot taken at
\* the press, and the canvas area of the screen shows that snapshot with the
\* outline from the press position to the pointer drawn over it.
C17_PreviewOnScreen ==
    [][PreviewsGesture
       => /\ canvas' = canvas
          /\ canvas' = gesture.canvas
          /\ temp_surface' = gesture.canvas
          /\ screen' = Outline(gesture.canvas, current_tool, current_color,
                               gesture.pos, mouse_pos, brush_size)]_vars

\* C17's case: a frame of a shape gesture has just been rendered after the
\* pointer moved on the canvas; the screen shows the outline in a colour the
\* canvas does not hold at that pixel.
C17_Witness ==
    /\ rendered
    /\ pressed
    /\ PressedOnCanvas
    /\ gesture.moved
    /\ mouse_pos # gesture.pos
    /\ current_tool \in ShapeTools
    /\ \E p \in Pixels : screen[p] = current_color /\ canvas[p] # current_color
    /\ canvas = temp_surface

\* C18 as stated: whenever a release restores the canvas from the snapshot,
\* the canvas has not been written since the snapshot was taken, so that the
\* restore changes no pixel and reverts nothing committed earlier.
C18_RestoreRevertsNothing ==
    [][(IsUp /\ Finalizes /\ Truthy(canvas_mouse_pos))
       => temp_surface = canvas]_vars

\* C19 as stated: the pencil and the eraser write the canvas only while the
\* button is held after a press on the canvas: a frame that ends with the
\* button up, or with the button held since a press made off the canvas,
\* draws no segment and leaves the canvas unchanged.
C19_StrokeOnlyWhilePressed ==
    [][(IsTick /\ ~Truthy(gesture))
       => calls' = <<>> /\ canvas' = canvas]_vars

\* C20: in every state the selection is valid: current_tool is one of the six
\* tools, brush_size is one of BRUSH_SIZES and positive, current_color is a
\* colour of the palette; and every drawing call made on the canvas was given
\* a positive thickness.
C20_SelectionValid ==
    /\ current_tool \in {"pencil", "eraser", "line", "rectangle", "circle", "fill"}
    /\ brush_size \in Range(BRUSH_SIZES)
    /\ brush_size > 0
    /\ current_color \in Range(palette_colors)
    /\ \A i \in DOMAIN calls :
           calls[i].fn \in {"draw_pencil", "draw_eraser", "draw_line",
                            "line", "rectangle", "circle"}
               => calls[i].size > 0 /\ calls[i].size \in Range(BRUSH_SIZES)

\* C20's case: another tool and another brush size than the initial ones
\* have been selected by clicks, and a drawing call has run with them.
C20_Witness ==
    /\ current_tool # "pencil"
    /\ brush_size # 5
    /\ Len(calls) >= 1
    /\ calls[Len(calls)].fn \in {"draw_line", "line", "rectangle", "circle"}
    /\ calls[Len(calls)].size = brush_size

====
